---- MODULE Spec2Model ----
(***************************************************************************)
(* Content-Tracker backend: the markdown document store                    *)
(* (services/markdown_service.py), its SQLite index                        *)
(* (services/search_service.py, db/init_db.py) and the synchronisation     *)
(* between the two.                                                        *)
(*                                                                         *)
(* Representation of Python values:                                        *)
(*   - a str that is free text (title, description, author, url, body) is  *)
(*     a sequence of atoms; an atom is a word, a blank " ", a newline      *)
(*     "\n" or the delimiter "---";                                        *)
(*   - a str that is a name (id, content_type, status, a tag, a category,  *)
(*     an ISO date) is one TLA+ string;                                    *)
(*   - a datetime.date object is the string DateObj(d), d the day number;  *)
(*   - a list of str is a sequence of strings, a dict a sequence of        *)
(*     <<key, value>> pairs (insertion order);                             *)
(*   - None is NoneStr, NONE or NoneDict according to the expected type;   *)
(*   - the text of a file is a sequence of atoms.                          *)
(***************************************************************************)
EXTENDS Integers, Sequences, FiniteSets, TLC

\* ------------------------------------------------------------------ bounds
\* the ids a run creates, the last day of a run, and the events of a run
\* (requests served and midnights passed)
MaxIds == 2
MaxDay == 2
MaxOps == 3
\* the document files placed under the root by hand
MaxFiles == 3

\* ------------------------------------------------------------------ values
NoneStr == "<None>"
NONE == <<NoneStr>>
NoneDict == << <<NoneStr, NoneStr>> >>

DELIM == "---"
SP == " "
NL == "\n"
Whitespace == {SP, NL}

Days == 1..(MaxDay + 1)
DateObj(d) == "date:" \o ToString(d)
IsoOfDay(d) == "2024-01-0" \o ToString(d)
DateObjs == {DateObj(d) : d \in Days}
IsoStrs == {IsoOfDay(d) : d \in Days}
IsDate(x) == x \in DateObjs
IsIsoStr(x) == x \in IsoStrs
\* date.isoformat()
IsoFormat(x) == IsoOfDay(CHOOSE d \in Days : x = DateObj(d))
\* date.fromisoformat()
FromIsoFormat(s) == DateObj(CHOOSE d \in Days : s = IsoOfDay(d))
\* position of an ISO date string in the lexicographic order of the strings
DayOfIso(s) == CHOOSE d \in Days : s = IsoOfDay(d)

IdOf(n) == "id" \o ToString(n)
AllIds == {IdOf(n) : n \in 1..MaxIds}

\* the content types get_content_item probes, in its order
\* the requests in flight when requests interleave
Procs == {"p1", "p2"}

KnownContentTypes ==
    <<"blog", "video", "podcast", "social", "research", "content-plans", "website-content">>

\* ------------------------------------------------------ sequence utilities
RECURSIVE Flatten(_)
Flatten(ss) == IF ss = <<>> THEN <<>> ELSE Head(ss) \o Flatten(Tail(ss))

Range(s) == {s[i] : i \in 1..Len(s)}

\* least index >= i of an atom of s equal to a, or 0
RECURSIVE IndexFrom(_, _, _)
IndexFrom(s, a, i) ==
    IF i > Len(s) THEN 0 ELSE IF s[i] = a THEN i ELSE IndexFrom(s, a, i + 1)

\* str.strip(): without the leading and trailing whitespace
RECURSIVE FirstKept(_, _)
FirstKept(s, i) ==
    IF i > Len(s) THEN i ELSE IF s[i] \notin Whitespace THEN i ELSE FirstKept(s, i + 1)
RECURSIVE LastKept(_, _)
LastKept(s, i) ==
    IF i < 1 THEN i ELSE IF s[i] \notin Whitespace THEN i ELSE LastKept(s, i - 1)
Strip(s) == SubSeq(s, FirstKept(s, 1), LastKept(s, Len(s)))

\* str.split(sep): the pieces of s between the atoms equal to sep
RECURSIVE SplitFrom(_, _, _)
SplitAt(s, sep, i, j) ==
    IF j = 0 THEN <<SubSeq(s, i, Len(s))>>
    ELSE <<SubSeq(s, i, j - 1)>> \o SplitFrom(s, sep, j + 1)
SplitFrom(s, sep, i) == SplitAt(s, sep, i, IndexFrom(s, sep, i))
SplitOn(s, sep) == SplitFrom(s, sep, 1)

\* ' '.join(list)
RECURSIVE JoinSpace(_)
JoinSpace(l) ==
    IF l = <<>> THEN <<>>
    ELSE IF Len(l) = 1 THEN <<l[1]>>
    ELSE <<l[1], SP>> \o JoinSpace(Tail(l))

\* -------------------------------------------------------------------- YAML
\* the keys of a front-matter mapping by the type of their value
TextKeys == {"title", "description", "author", "url"}
NameKeys == {"id", "content_type", "status", "created_date", "updated_date", "publish_date"}
ListKeys == {"categories", "tags"}
DictKeys == {"custom_fields"}
DateKeys == <<"created_date", "updated_date", "publish_date">>
\* yaml.dump sorts the keys of a mapping
SortedKeys ==
    <<"author", "categories", "content_type", "created_date", "custom_fields",
      "description", "id", "publish_date", "status", "tags", "title",
      "updated_date", "url">>
AllKeys == Range(SortedKeys)

KeyAtom(k) == k \o ":"
KeyAtoms == {KeyAtom(k) : k \in AllKeys}
KeyOf == [a \in KeyAtoms |-> CHOOSE k \in AllKeys : KeyAtom(k) = a]
KeyOfAtom(a) == KeyOf[a]
IsKeyAtom(a) == a \in KeyAtoms
QUOTE == "'"
DASH == "-"
INDENT == "  "
COLON == ":"

\* one "key: value" entry of the block-style dump
YamlEntry(k, v) ==
    IF k \in NameKeys THEN
        IF v = NoneStr THEN <<KeyAtom(k), "null", NL>>
        ELSE IF IsIsoStr(v) THEN <<KeyAtom(k), QUOTE, v, QUOTE, NL>>
        ELSE <<KeyAtom(k), v, NL>>
    ELSE IF k \in TextKeys THEN
        IF v = NONE THEN <<KeyAtom(k), "null", NL>>
        ELSE IF v = <<>> THEN <<KeyAtom(k), "''", NL>>
        ELSE IF v # Strip(v) \/ v[1] = DELIM
             THEN <<KeyAtom(k), QUOTE>> \o v \o <<QUOTE, NL>>
        ELSE <<KeyAtom(k)>> \o v \o <<NL>>
    ELSE IF k \in ListKeys THEN
        IF v = NONE THEN <<KeyAtom(k), "null", NL>>
        ELSE IF v = <<>> THEN <<KeyAtom(k), "[]", NL>>
        ELSE <<KeyAtom(k), NL>> \o Flatten([i \in 1..Len(v) |-> <<DASH, v[i], NL>>])
    ELSE
        IF v = NoneDict THEN <<KeyAtom(k), "null", NL>>
        ELSE IF v = <<>> THEN <<KeyAtom(k), "{}", NL>>
        ELSE <<KeyAtom(k), NL>> \o
             Flatten([i \in 1..Len(v) |-> <<INDENT, v[i][1], COLON, v[i][2], NL>>])

\* yaml.dump(mapping, default_flow_style=False)
YamlDump(fm) ==
    Flatten([i \in 1..Len(SortedKeys) |->
                IF SortedKeys[i] \in DOMAIN fm
                THEN YamlEntry(SortedKeys[i], fm[SortedKeys[i]])
                ELSE <<>>])

\* the non-empty lines of a YAML text
YamlLines(atoms) == SelectSeq(SplitOn(atoms, NL), LAMBDA l : l # <<>>)

\* a line a block mapping can hold: an entry (a quoted scalar closes its
\* quote), a list item or a nested entry
YamlLineOk(l) ==
    \/ /\ IsKeyAtom(l[1])
       /\ (Len(l) >= 2 /\ l[2] = QUOTE) => (Len(l) >= 3 /\ l[Len(l)] = QUOTE)
    \/ l[1] = DASH /\ Len(l) = 2
    \/ l[1] = INDENT /\ Len(l) = 4 /\ l[3] = COLON

\* the value of an entry of key k: what follows the key on its line, or the
\* block of list items / nested entries on the lines after it
YamlDecode(k, inline, block) ==
    IF k \in NameKeys THEN
        IF inline = <<"null">> \/ inline = <<>> THEN NoneStr
        ELSE IF inline[1] = QUOTE THEN inline[2]
        ELSE IF IsIsoStr(inline[1]) THEN FromIsoFormat(inline[1])
        ELSE inline[1]
    ELSE IF k \in TextKeys THEN
        IF inline = <<"null">> \/ inline = <<>> THEN NONE
        ELSE IF inline = <<"''">> THEN <<>>
        ELSE IF inline[1] = QUOTE THEN SubSeq(inline, 2, Len(inline) - 1)
        ELSE Strip(inline)
    ELSE IF k \in ListKeys THEN
        IF inline = <<"null">> THEN NONE
        ELSE IF inline = <<"[]">> THEN <<>>
        ELSE IF block = <<>> THEN NONE
        ELSE [j \in 1..Len(block) |-> block[j][2]]
    ELSE
        IF inline = <<"null">> THEN NoneDict
        ELSE IF inline = <<"{}">> THEN <<>>
        ELSE IF block = <<>> THEN NoneDict
        ELSE [j \in 1..Len(block) |-> <<block[j][2], block[j][4]>>]

\* the last line before line j or at it that belongs to the block begun there
RECURSIVE BlockEnd(_, _)
BlockEnd(lines, j) ==
    IF j > Len(lines) THEN j - 1
    ELSE IF IsKeyAtom(lines[j][1]) THEN j - 1
    ELSE BlockEnd(lines, j + 1)

\* the last line at or before line i that opens with the atom a; a key given
\* twice keeps its last value
RECURSIVE LastLineOf(_, _, _)
LastLineOf(lines, a, i) ==
    IF lines[i][1] = a THEN i ELSE LastLineOf(lines, a, i - 1)

YamlValue(lines, i) ==
    YamlDecode(KeyOfAtom(lines[i][1]), Tail(lines[i]),
               SubSeq(lines, i + 1, BlockEnd(lines, i + 1)))

YamlLoadLines(lines) ==
    IF \E i \in 1..Len(lines) : ~YamlLineOk(lines[i])
    THEN [ok |-> FALSE, map |-> <<>>]
    ELSE [ok |-> TRUE,
          map |-> [k \in {KeyOfAtom(lines[i][1]) :
                             i \in {j \in 1..Len(lines) : IsKeyAtom(lines[j][1])}} |->
                      YamlValue(lines, LastLineOf(lines, KeyAtom(k), Len(lines)))]]

\* yaml.safe_load(text) or {}: [ok |-> FALSE] stands for yaml.YAMLError
YamlLoad(atoms) == YamlLoadLines(YamlLines(atoms))

\* ------------------------------------------------------------ file contents
\* write_content_file: the text written for a front-matter mapping and a body
IsoDates(fm) ==
    [k \in DOMAIN fm |->
        IF k \in Range(DateKeys) /\ fm[k] # NoneStr /\ IsDate(fm[k])
        THEN IsoFormat(fm[k]) ELSE fm[k]]

\* the f-string formats a body of None as the word None
FormatBody(body) == IF body = NONE THEN <<"None">> ELSE body

WriteContentFile(frontmatter, body) ==
    <<DELIM, NL>> \o YamlDump(IsoDates(frontmatter)) \o <<DELIM, NL, NL>> \o FormatBody(body)

\* the parts of a text whose second delimiter is at index second
ReadParts(y, body) ==
    IF y.ok THEN [ok |-> TRUE, data |-> ("body" :> body) @@ y.map]
    ELSE [ok |-> FALSE, data |-> <<>>]

ReadSplit(text, second) ==
    IF second # 0
    THEN ReadParts(YamlLoad(SubSeq(text, 2, second - 1)),
                   Strip(SubSeq(text, second + 1, Len(text))))
    ELSE [ok |-> TRUE, data |-> ("body" :> text)]

\* read_content_file: [ok |-> FALSE] stands for the exception it raises
ReadContentFile(text) ==
    IF Len(text) > 0 /\ text[1] = DELIM
    THEN ReadSplit(text, IndexFrom(text, DELIM, 2))
    ELSE [ok |-> TRUE, data |-> ("body" :> text)]

\* _get_content_file_path
GetContentFilePath(content_id, content_type) == content_type \o "/" \o content_id \o ".md"

\* the document root: the *.md files in the order a directory scan lists them
FileExists(fs, path) == \E i \in 1..Len(fs) : fs[i].path = path
FileText(fs, path) == fs[CHOOSE i \in 1..Len(fs) : fs[i].path = path].text
\* open(path, 'w') + write: an existing file keeps its directory entry, a new
\* one is listed at position pos
PutFile(fs, path, text, pos) ==
    IF FileExists(fs, path)
    THEN [i \in 1..Len(fs) |-> IF fs[i].path = path THEN [path |-> path, text |-> text] ELSE fs[i]]
    ELSE SubSeq(fs, 1, pos - 1) \o <<[path |-> path, text |-> text]>> \o SubSeq(fs, pos, Len(fs))
\* os.remove
RemoveFile(fs, path) == SelectSeq(fs, LAMBDA f : f.path # path)

\* ------------------------------------------------------------------ models
IsNoneAt(d, k) ==
    IF k \in NameKeys THEN d[k] = NoneStr
    ELSE IF k \in DictKeys THEN d[k] = NoneDict
    ELSE d[k] = NONE

IsDateLike(x) == IsDate(x) \/ IsIsoStr(x)
ToDate(x) == IF IsDate(x) THEN x ELSE FromIsoFormat(x)

RequiredKeys == {"id", "title", "content_type", "created_date", "updated_date"}
NotNullKeys == RequiredKeys \cup {"status", "categories", "tags", "custom_fields", "body"}

\* ContentResponse(file_path=..., **d) validates
ContentResponseValid(d) ==
    /\ RequiredKeys \subseteq DOMAIN d
    /\ \A k \in NotNullKeys \cap DOMAIN d : ~IsNoneAt(d, k)
    /\ d["title"] # <<>>
    /\ IsDateLike(d["created_date"])
    /\ IsDateLike(d["updated_date"])
    /\ "publish_date" \in DOMAIN d => (d["publish_date"] = NoneStr \/ IsDateLike(d["publish_date"]))

Field(d, k, default) == IF k \in DOMAIN d THEN d[k] ELSE default

\* the ContentResponse built from a valid mapping
ContentResponse(file_path, d) ==
    [id |-> d["id"],
     file_path |-> file_path,
     title |-> d["title"],
     content_type |-> d["content_type"],
     status |-> Field(d, "status", "draft"),
     description |-> Field(d, "description", NONE),
     author |-> Field(d, "author", NONE),
     url |-> Field(d, "url", NONE),
     publish_date |-> IF Field(d, "publish_date", NoneStr) = NoneStr THEN NoneStr
                      ELSE ToDate(d["publish_date"]),
     categories |-> Field(d, "categories", <<>>),
     tags |-> Field(d, "tags", <<>>),
     custom_fields |-> Field(d, "custom_fields", <<>>),
     created_date |-> ToDate(d["created_date"]),
     updated_date |-> ToDate(d["updated_date"]),
     body |-> Field(d, "body", <<>>)]

\* -------------------------------------------------------------------- JSON
DQ == "\""
RECURSIVE JsonList(_)
JsonList(l) ==
    IF l = <<>> THEN <<>>
    ELSE IF Len(l) = 1 THEN <<DQ, l[1], DQ>>
    ELSE <<DQ, l[1], DQ, ",", SP>> \o JsonList(Tail(l))
RECURSIVE JsonDict(_)
JsonDict(d) ==
    IF d = <<>> THEN <<>>
    ELSE IF Len(d) = 1 THEN <<DQ, d[1][1], DQ, COLON, SP, DQ, d[1][2], DQ>>
    ELSE <<DQ, d[1][1], DQ, COLON, SP, DQ, d[1][2], DQ, ",", SP>> \o JsonDict(Tail(d))
\* json.dumps of a list of str and of a dict of str
JsonDumpsList(l) == <<"[">> \o JsonList(l) \o <<"]">>
JsonDumpsDict(d) == <<"{">> \o JsonDict(d) \o <<"}">>
\* json.loads of such a text
JsonLoadsList(a) == [j \in 1..(Len(a) \div 5) |-> a[5 * j - 2]]
JsonLoadsDict(a) == [j \in 1..(Len(a) \div 10) |-> <<a[10 * j - 7], a[10 * j - 2]>>]

\* ------------------------------------------------------------------- index
\* the content_items row index_content_item writes; the client column is
\* not in its column list and stays NULL
IndexRow(content) ==
    [id |-> content.id,
     file_path |-> content.file_path,
     title |-> content.title,
     content_type |-> content.content_type,
     status |-> content.status,
     created_date |-> IF IsDate(content.created_date) THEN IsoFormat(content.created_date)
                      ELSE content.created_date,
     updated_date |-> IF IsDate(content.updated_date) THEN IsoFormat(content.updated_date)
                      ELSE content.updated_date,
     publish_date |-> IF content.publish_date # NoneStr /\ IsDate(content.publish_date)
                      THEN IsoFormat(content.publish_date) ELSE content.publish_date,
     author |-> content.author,
     client |-> NoneStr,
     url |-> content.url,
     description |-> content.description,
     categories_json |-> JsonDumpsList(content.categories),
     tags_json |-> JsonDumpsList(content.tags),
     custom_fields_json |-> JsonDumpsDict(content.custom_fields)]

\* the content_fts row index_content_item writes
FtsRow(content) ==
    [id |-> content.id,
     title |-> content.title,
     description |-> IF content.description = NONE THEN <<>> ELSE content.description,
     body |-> IF content.body = NONE THEN <<>> ELSE content.body,
     tags |-> JoinSpace(content.tags)]

\* INSERT OR REPLACE INTO content_items: id is the PRIMARY KEY and file_path
\* is UNIQUE, so every row in conflict on either is deleted; the new row
\* gets the highest rowid (the tables are kept in rowid order)
ReplaceIntoItems(items, row) ==
    SelectSeq(items, LAMBDA r : r.id # row.id /\ r.file_path # row.file_path) \o <<row>>

\* INSERT OR REPLACE INTO content_fts: the FTS5 table has no key but its
\* rowid, which the statement does not give, so the row is added
ReplaceIntoFts(fts, row) == Append(fts, row)

\* index_content_item, as committed: idx is [items, fts]
IndexContentItem(idx, content) ==
    [items |-> ReplaceIntoItems(idx.items, IndexRow(content)),
     fts |-> ReplaceIntoFts(idx.fts, FtsRow(content))]

\* (a removal that forgot the DELETE on content_items)
RemoveOnlyFts(idx, content_id) ==
    [items |-> idx.items, fts |-> SelectSeq(idx.fts, LAMBDA r : r.id # content_id)]

\* (a removal whose DELETE on content_fts lost its WHERE clause)
RemoveClearsFts(idx, content_id) ==
    [items |-> SelectSeq(idx.items, LAMBDA r : r.id # content_id), fts |-> <<>>]

\* remove_from_index, as committed
RemoveFromIndex(idx, content_id) ==
    [items |-> SelectSeq(idx.items, LAMBDA r : r.id # content_id),
     fts |-> SelectSeq(idx.fts, LAMBDA r : r.id # content_id)]

\* (a rollback that let the statements already run stand)
RollbackKeepsFirst(idx, attempted) == [items |-> attempted.items, fts |-> idx.fts]
\* (a failure reported after the commit)
RollbackCommits(idx, attempted) == attempted

\* an sqlite3.Error inside index_content_item or remove_from_index: the
\* finally clause closes the connection without a commit, which rolls the
\* transaction back; attempted is what a commit would have stored
Rollback(idx, attempted) == idx

\* (a rebuild that forgot its DELETE statements)
ClearIndexKeeps(idx) == idx

\* the two DELETE statements that open rebuild_index_from_files
ClearIndex(idx) == [items |-> <<>>, fts |-> <<>>]

\* ------------------------------------------------------------------ search
\* case folding of the FTS5 tokenizer and of LIKE, on the words used here
Lower(w) == IF w = "SEO" THEN "seo" ELSE IF w = "Demo" THEN "demo" ELSE w

\* text LIKE '%pattern%': pattern occurs in text, letter case ignored
Like(text, pattern) ==
    \E i \in 0..(Len(text) - Len(pattern)) :
        \A j \in 1..Len(pattern) : Lower(text[i + j]) = Lower(pattern[j])

\* content_fts MATCH term, for a query of one term
FtsMatch(r, term) ==
    \E col \in {r.title, r.description, r.body, r.tags} :
        \E i \in 1..Len(col) : Lower(col[i]) = Lower(term)

\* (a WHERE clause whose tag condition replaced the conditions before it)
RowMatchesTagsAlone(row, fts, f) ==
    /\ f.tags = <<>> =>
          /\ f.query # NoneStr =>
                \E i \in 1..Len(fts) : fts[i].id = row.id /\ FtsMatch(fts[i], f.query)
          /\ f.content_types # <<>> => row.content_type \in Range(f.content_types)
          /\ f.statuses # <<>> => row.status \in Range(f.statuses)
    /\ f.tags # <<>> =>
          \E i \in 1..Len(f.tags) : Like(row.tags_json, <<DQ, f.tags[i], DQ>>)
    /\ f.client # NoneStr =>
          Like(row.custom_fields_json, <<DQ, "client", DQ, COLON, SP, DQ, f.client, DQ>>)
    /\ f.date_from # NoneStr => DayOfIso(row.created_date) >= DayOfIso(f.date_from)
    /\ f.date_to # NoneStr => DayOfIso(row.created_date) <= DayOfIso(f.date_to)

\* the WHERE clause search_content builds; an absent filter is NoneStr or <<>>
RowMatches(row, fts, f) ==
    /\ f.query # NoneStr =>
          \E i \in 1..Len(fts) : fts[i].id = row.id /\ FtsMatch(fts[i], f.query)
    /\ f.content_types # <<>> => row.content_type \in Range(f.content_types)
    /\ f.statuses # <<>> => row.status \in Range(f.statuses)
    /\ f.tags # <<>> =>
          \E i \in 1..Len(f.tags) : Like(row.tags_json, <<DQ, f.tags[i], DQ>>)
    /\ f.client # NoneStr =>
          Like(row.custom_fields_json, <<DQ, "client", DQ, COLON, SP, DQ, f.client, DQ>>)
    /\ f.date_from # NoneStr => DayOfIso(row.created_date) >= DayOfIso(f.date_from)
    /\ f.date_to # NoneStr => DayOfIso(row.created_date) <= DayOfIso(f.date_to)

\* ORDER BY updated_date DESC: rows of one date stay in rowid order
OrderByUpdatedDesc(rows) ==
    LET n == Cardinality(Days)
    IN  Flatten([i \in 1..n |->
            SelectSeq(rows, LAMBDA r : DayOfIso(r.updated_date) = n + 1 - i)])

\* the ContentResponse search_content builds from a row
RowResponse(row) ==
    [id |-> row.id,
     file_path |-> row.file_path,
     title |-> row.title,
     content_type |-> row.content_type,
     status |-> row.status,
     created_date |-> FromIsoFormat(row.created_date),
     updated_date |-> FromIsoFormat(row.updated_date),
     publish_date |-> IF row.publish_date = NoneStr THEN NoneStr
                      ELSE FromIsoFormat(row.publish_date),
     author |-> row.author,
     url |-> row.url,
     description |-> row.description,
     categories |-> JsonLoadsList(row.categories_json),
     tags |-> JsonLoadsList(row.tags_json),
     custom_fields |-> JsonLoadsDict(row.custom_fields_json),
     body |-> <<>>]

\* (a search that cuts its page out of the unsorted matches and sorts the page)
SearchSortsPage(idx, f) ==
    LET hits == SelectSeq(idx.items, LAMBDA r : RowMatches(r, idx.fts, f))
        page == OrderByUpdatedDesc(SubSeq(hits, f.offset + 1,
                       IF f.offset + f.limit < Len(hits) THEN f.offset + f.limit
                       ELSE Len(hits)))
    IN  [items |-> [i \in 1..Len(page) |-> RowResponse(page[i])], total |-> Len(hits)]

\* (a search that counts the rows of its page)
SearchCountsPage(idx, f) ==
    LET hits == SelectSeq(idx.items, LAMBDA r : RowMatches(r, idx.fts, f))
        sorted == OrderByUpdatedDesc(hits)
        page == SubSeq(sorted, f.offset + 1,
                       IF f.offset + f.limit < Len(sorted) THEN f.offset + f.limit
                       ELSE Len(sorted))
    IN  [items |-> [i \in 1..Len(page) |-> RowResponse(page[i])], total |-> Len(page)]

\* search_content: [items, total]
SearchContent(idx, f) ==
    LET hits == SelectSeq(idx.items, LAMBDA r : RowMatches(r, idx.fts, f))
        sorted == OrderByUpdatedDesc(hits)
        page == SubSeq(sorted, f.offset + 1,
                       IF f.offset + f.limit < Len(sorted) THEN f.offset + f.limit
                       ELSE Len(sorted))
    IN  [items |-> [i \in 1..Len(page) |-> RowResponse(page[i])], total |-> Len(hits)]

\* search_content() with its defaults: no filter, limit 50, offset 0
NoFilter ==
    [query |-> NoneStr, content_types |-> <<>>, statuses |-> <<>>, tags |-> <<>>,
     client |-> NoneStr, date_from |-> NoneStr, date_to |-> NoneStr, limit |-> 50, offset |-> 0]

\* the strings of the model in the order sorted() and ORDER BY put them
\* (upper case before lower case)
WordOrder ==
    <<"ClientA", "ClientB", "blog", "draft", "newsletter", "published", "video">>
\* the author texts of the model in that order
AuthorOrder == << <<"Ann">>, <<"Bob">> >>
\* the members of S, each once, in the order of the sequence order
SortedValues(order, S) == SelectSeq(order, LAMBDA v : v \in S)

\* the values of the key "client" in the custom_fields_json of the rows
CustomClients(items) ==
    {JsonLoadsDict(items[i].custom_fields_json)[j][2] :
        <<i, j>> \in {<<i, j>> \in (1..Len(items)) \X (1..1) :
                         /\ j <= Len(JsonLoadsDict(items[i].custom_fields_json))
                         /\ JsonLoadsDict(items[i].custom_fields_json)[j][1] = "client"}}

\* get_unique_values
GetUniqueValues(idx, field) ==
    IF field \in {"content_type", "status"}
    THEN SortedValues(WordOrder, {idx.items[i][field] : i \in 1..Len(idx.items)} \ {NoneStr})
    ELSE IF field = "author"
    THEN SortedValues(AuthorOrder, {idx.items[i].author : i \in 1..Len(idx.items)} \ {NONE})
    ELSE IF field = "client"
    THEN SortedValues(WordOrder, CustomClients(idx.items))
    ELSE <<>>

\* ------------------------------------------------------------------- state
VARIABLES
    files,          \* the *.md files under CONTENT_LIBRARY_PATH, in scan order
    content_items,  \* table content_items, in rowid order
    content_fts,    \* table content_fts, in rowid order
    today,          \* the day date.today() returns
    nextId,         \* number of the next id uuid4() returns
    ops,            \* number of requests served
    last,           \* the last request served and its outcome
    procs,          \* the requests in progress, when requests interleave
    dbLock          \* the request holding the write lock of the database, or NoneStr

vars == <<files, content_items, content_fts, today, nextId, ops, last, procs, dbLock>>

Index == [items |-> content_items, fts |-> content_fts]

\* what has happened in the run: the requests served and the midnights passed
Events == ops + (today - 1)

\* ------------------------------------------------------------------ inputs
BaseCreate ==
    [title |-> <<"SEO">>, content_type |-> "blog", status |-> "draft",
     description |-> NONE, author |-> NONE, url |-> NONE, publish_date |-> NoneStr,
     categories |-> <<>>, tags |-> <<"seo">>, custom_fields |-> <<>>,
     body |-> <<"hello">>]

\* the ContentCreate requests tried
CreateInputs ==
    << BaseCreate,
       [BaseCreate EXCEPT !.title = <<"Demo">>, !.content_type = "video",
                          !.status = "published", !.tags = <<>>,
                          !.publish_date = DateObj(1), !.body = <<NL, "demo", SP>>],
       [BaseCreate EXCEPT !.content_type = "newsletter"],
       [BaseCreate EXCEPT !.title = <<"a", DELIM, "b">>, !.tags = <<>>] >>

\* the ContentUpdate requests tried, each the mapping of the fields it sets
UpdateInputs ==
    << [status |-> "published"],
       [title |-> <<"Demo">>, body |-> <<"bye">>],
       [content_type |-> "video"],
       [title |-> NONE],
       [tags |-> NONE],
       [title |-> <<>>] >>

\* ContentUpdate validates: a title that is given as a str has min_length 1
ContentUpdateValid(u) == "title" \in DOMAIN u => u["title"] # <<>>

\* ----------------------------------------------------------- document store
\* the first path get_content_item finds for the id, trying the content
\* types from the i-th on, or NoneStr
RECURSIVE FindPathFrom(_, _, _)
FindPathFrom(fs, content_id, i) ==
    IF i > Len(KnownContentTypes) THEN NoneStr
    ELSE IF FileExists(fs, GetContentFilePath(content_id, KnownContentTypes[i]))
         THEN GetContentFilePath(content_id, KnownContentTypes[i])
         ELSE FindPathFrom(fs, content_id, i + 1)
FindPath(fs, content_id) == FindPathFrom(fs, content_id, 1)

\* the dates of a mapping read from a file are strings or dates; the
\* handlers turn the strings into dates with date.fromisoformat, which
\* raises on a string that is no ISO date
DatesConvertible(d) ==
    \A i \in 1..Len(DateKeys) :
        (DateKeys[i] \in DOMAIN d /\ d[DateKeys[i]] # NoneStr) => IsDateLike(d[DateKeys[i]])

\* ContentResponse(file_path=path, **data) for the mapping read from a file:
\* out is "ok" with the item, or "error" for the exception raised
ParseRead(path, r) ==
    IF r.ok /\ DatesConvertible(r.data) /\ ContentResponseValid(r.data)
    THEN [out |-> "ok", item |-> ContentResponse(path, r.data)]
    ELSE [out |-> "error", item |-> <<>>]

ParseItem(path, text) == ParseRead(path, ReadContentFile(text))

\* (a get_content_item that raises when it finds no file)
GetAtRaises(fs, path) ==
    IF path = NoneStr THEN [out |-> "error", item |-> <<>>]
    ELSE ParseItem(path, FileText(fs, path))

\* get_content_item: "ok" with the item, "none", or "error"
GetAt(fs, path) ==
    IF path = NoneStr THEN [out |-> "none", item |-> <<>>]
    ELSE ParseItem(path, FileText(fs, path))

GetContentItem(fs, content_id) == GetAt(fs, FindPath(fs, content_id))

\* the front matter create_content_item writes
CreateFrontmatter(content_id, c, day) ==
    [id |-> content_id,
     title |-> c.title,
     content_type |-> c.content_type,
     status |-> c.status,
     created_date |-> IsoFormat(DateObj(day)),
     updated_date |-> IsoFormat(DateObj(day)),
     publish_date |-> IF c.publish_date # NoneStr THEN IsoFormat(c.publish_date) ELSE NoneStr,
     author |-> c.author,
     url |-> c.url,
     description |-> c.description,
     categories |-> c.categories,
     tags |-> c.tags,
     custom_fields |-> c.custom_fields]

\* the ContentResponse create_content_item returns and indexes
CreateResult(content_id, file_path, c, day) ==
    [id |-> content_id, file_path |-> file_path,
     created_date |-> DateObj(day), updated_date |-> DateObj(day),
     publish_date |-> c.publish_date, title |-> c.title,
     content_type |-> c.content_type, status |-> c.status, author |-> c.author,
     url |-> c.url, description |-> c.description, categories |-> c.categories,
     tags |-> c.tags, custom_fields |-> c.custom_fields, body |-> c.body]

\* (an update that stamps created_date in place of updated_date)
UpdatedDataStampsWrongKey(current, u, day) ==
    ("created_date" :> IsoFormat(DateObj(day))) @@ u @@ current

\* (an update that stamps created_date as well)
UpdatedDataStampsCreated(current, u, day) ==
    ("created_date" :> IsoFormat(DateObj(day))) @@ ("updated_date" :> IsoFormat(DateObj(day)))
        @@ u @@ current

\* update_content_item, lines 197-205: the mapping read from the file with
\* the given fields replaced and updated_date set
UpdatedData(current, u, day) ==
    ("updated_date" :> IsoFormat(DateObj(day))) @@ u @@ current

WithoutBody(d) == [k \in DOMAIN d \ {"body"} |-> d[k]]
\* data.pop('body', '')
PopBody(d) == IF "body" \in DOMAIN d THEN d["body"] ELSE <<>>

\* ------------------------------------------------- index against documents
\* the content types a document of the model can be stored under
StoredTypes == Range(KnownContentTypes) \cup {CreateInputs[n].content_type : n \in 1..Len(CreateInputs)}

\* the files named <id>.md, whatever their directory
FilesOf(fs, id) ==
    {i \in 1..Len(fs) : \E ct \in StoredTypes : fs[i].path = GetContentFilePath(id, ct)}
RowsOf(items, id) == {i \in 1..Len(items) : items[i].id = id}
FtsRowsOf(fts, id) == {i \in 1..Len(fts) : fts[i].id = id}

\* the row holds for each of the twelve mirrored fields the value the
\* document d (a mapping read from a file) stores for it
RowEqualsData(row, d) ==
    /\ (AllKeys \ {"id"}) \subseteq DOMAIN d
    /\ row.title = d["title"]
    /\ row.content_type = d["content_type"]
    /\ row.status = d["status"]
    /\ row.created_date = d["created_date"]
    /\ row.updated_date = d["updated_date"]
    /\ row.publish_date = d["publish_date"]
    /\ row.author = d["author"]
    /\ row.url = d["url"]
    /\ row.description = d["description"]
    /\ JsonLoadsList(row.categories_json) = d["categories"]
    /\ JsonLoadsList(row.tags_json) = d["tags"]
    /\ JsonLoadsDict(row.custom_fields_json) = d["custom_fields"]

RowEqualsFile(row, text) ==
    /\ ReadContentFile(text).ok
    /\ RowEqualsData(row, ReadContentFile(text).data)

\* index and document store agree on the id
InSync(fs, items, id) ==
    /\ (RowsOf(items, id) # {}) <=> (FilesOf(fs, id) # {})
    /\ \A i \in RowsOf(items, id) : \A j \in FilesOf(fs, id) : RowEqualsFile(items[i], fs[j].text)

\* --------------------------------------------------- requests, one at a time
\* what a request served alone may run into: nothing, or an sqlite3.Error of
\* its index step
Faults == {"none", "index"}

\* a request not yet received
IdleProc ==
    [pc |-> "idle", op |-> "", id |-> NoneStr, path |-> NoneStr, u |-> <<>>, data |-> <<>>,
     body |-> <<>>, item |-> <<>>, txn |-> <<>>, wrote |-> FALSE, indexed |-> FALSE,
     out |-> ""]
Idle == [p \in Procs |-> IdleProc]

Init ==
    /\ files = <<>>
    /\ content_items = <<>>
    /\ content_fts = <<>>
    /\ today = 1
    /\ nextId = 1
    /\ ops = 0
    /\ last = [op |-> "init", id |-> NoneStr, out |-> "ok", count |-> 0, fault |-> "none",
               wrote |-> <<>>, drift |-> FALSE, again |-> FALSE, faulted |-> FALSE]
    /\ procs = Idle
    /\ dbLock = NoneStr

\* the record of a served request; wrote is the text it wrote to its file;
\* drift: a rebuild found an index that differed from the files; again: a
\* rebuild followed a rebuild that met no failure
Served(op, id, out, count, fault, wrote) ==
    /\ last' = [op |-> op, id |-> id, out |-> out, count |-> count, fault |-> fault,
                wrote |-> wrote,
                drift |-> (op = "rebuild" /\ \E i \in AllIds : ~InSync(files, content_items, i)),
                again |-> (op = "rebuild" /\ last.op = "rebuild" /\ last.fault = "none"),
                faulted |-> (last.faulted \/ fault # "none")]
    /\ ops' = ops + 1

SetIndex(idx) == content_items' = idx.items /\ content_fts' = idx.fts

\* create_content_item
Create(n, pos, fault) ==
    LET c == CreateInputs[n]
        content_id == IdOf(nextId)
        file_path == GetContentFilePath(content_id, c.content_type)
        text == WriteContentFile(CreateFrontmatter(content_id, c, today), c.body)
        result == CreateResult(content_id, file_path, c, today)
    IN  /\ Events < MaxOps
        /\ nextId <= MaxIds
        /\ nextId' = nextId + 1
        /\ files' = PutFile(files, file_path, text, pos)
        /\ IF fault = "none" THEN SetIndex(IndexContentItem(Index, result))
           ELSE SetIndex(Rollback(Index, IndexContentItem(Index, result)))
        /\ Served("create", content_id, IF fault = "none" THEN "ok" ELSE "error", 0, fault, text)
        /\ UNCHANGED <<today, procs, dbLock>>

\* update_content_item from line 207 on: data is the updated mapping
UpdateWrite(content_id, path, data, body, fault) ==
    /\ files' = PutFile(files, path, WriteContentFile(WithoutBody(data), body), 1)
    /\ IF DatesConvertible(data) /\ ContentResponseValid(("body" :> body) @@ data)
       THEN IF fault = "none"
            THEN /\ SetIndex(IndexContentItem(Index, ContentResponse(path, ("body" :> body) @@ data)))
                 /\ Served("update", content_id, "ok", 0, fault,
                        WriteContentFile(WithoutBody(data), body))
            ELSE /\ SetIndex(Rollback(Index, IndexContentItem(Index,
                                  ContentResponse(path, ("body" :> body) @@ data))))
                 /\ Served("update", content_id, "error", 0, fault,
                        WriteContentFile(WithoutBody(data), body))
       ELSE /\ fault = "none"
            /\ UNCHANGED <<content_items, content_fts>>
            /\ Served("update", content_id, "invalid", 0, fault,
                        WriteContentFile(WithoutBody(data), body))

\* update_content_item once get_content_item has answered existing
UpdateExisting(content_id, existing, current, u, fault) ==
    IF ~ContentUpdateValid(u) THEN
        /\ fault = "none"
        /\ UNCHANGED <<files, content_items, content_fts>>
        /\ Served("update", content_id, "rejected", 0, fault, <<>>)
    ELSE IF existing.out # "ok" THEN
        /\ fault = "none"
        /\ UNCHANGED <<files, content_items, content_fts>>
        /\ Served("update", content_id, existing.out, 0, fault, <<>>)
    ELSE UpdateWrite(content_id, existing.item.file_path,
                     UpdatedData(current, u, today),
                     PopBody(UpdatedData(current, u, today)), fault)

\* the second read of the file, line 195
ReadExisting(fs, existing) ==
    IF existing.out = "ok" THEN ReadContentFile(FileText(fs, existing.item.file_path)).data
    ELSE <<>>

UpdateGot(content_id, existing, current) ==
    \E n \in 1..Len(UpdateInputs), fault \in Faults :
        UpdateExisting(content_id, existing, current, UpdateInputs[n], fault)

UpdateFound(content_id, existing) ==
    UpdateGot(content_id, existing, ReadExisting(files, existing))

\* update_content_item behind the ContentUpdate validation of the route
Update(content_id) ==
    /\ Events < MaxOps
    /\ UNCHANGED <<today, nextId, procs, dbLock>>
    /\ UpdateFound(content_id, GetContentItem(files, content_id))

\* delete_content_item once get_content_item has answered existing
DeleteExisting(content_id, existing) ==
    \E fault \in Faults :
        IF existing.out # "ok" THEN
            /\ fault = "none"
            /\ UNCHANGED <<files, content_items, content_fts>>
            /\ Served("delete", content_id, existing.out, 0, fault, <<>>)
        ELSE
            /\ files' = RemoveFile(files, existing.item.file_path)
            /\ IF fault = "none" THEN SetIndex(RemoveFromIndex(Index, content_id))
               ELSE SetIndex(Rollback(Index, RemoveFromIndex(Index, content_id)))
            /\ Served("delete", content_id, IF fault = "none" THEN "ok" ELSE "error", 0, fault, <<>>)

\* delete_content_item
Delete(content_id) ==
    /\ Events < MaxOps
    /\ UNCHANGED <<today, nextId, procs, dbLock>>
    /\ DeleteExisting(content_id, GetContentItem(files, content_id))

\* the route GET /content/{id}: get_content_item
Read(content_id) ==
    /\ Events < MaxOps
    /\ Served("read", content_id, GetContentItem(files, content_id).out, 0, "none", <<>>)
    /\ UNCHANGED <<files, content_items, content_fts, today, nextId, procs, dbLock>>

\* the loop of rebuild_index_from_files over the scanned files; the index
\* write of the files in failing raises, and the loop goes on to the next
\* parsed[i] is ParseItem of the i-th scanned file
RECURSIVE RebuildLoop(_, _, _, _, _)
RebuildLoop(parsed, i, idx, count, failing) ==
    IF i > Len(parsed) THEN [idx |-> idx, count |-> count]
    ELSE IF parsed[i].out = "ok" /\ i \notin failing
         THEN RebuildLoop(parsed, i + 1, IndexContentItem(idx, parsed[i].item),
                          count + 1, failing)
         ELSE RebuildLoop(parsed, i + 1, idx, count, failing)

\* (a rebuild that counts on from the rows it found)
RebuildCountsOn(parsed, idx, failing) ==
    RebuildLoop(parsed, 1, ClearIndex(idx), Len(idx.items), failing)

\* (a rebuild that gives up at the first file it cannot parse)
RebuildStopsAtFailure(parsed, idx, failing) ==
    LET bad == {i \in 1..Len(parsed) : parsed[i].out # "ok"}
        upto == IF bad = {} THEN Len(parsed)
                ELSE (CHOOSE i \in bad : \A j \in bad : i <= j) - 1
    IN  RebuildLoop(SubSeq(parsed, 1, upto), 1, ClearIndex(idx), 0, failing)

\* rebuild_index_from_files
RebuildIndexFromFiles(parsed, idx, failing) ==
    RebuildLoop(parsed, 1, ClearIndex(idx), 0, failing)

RebuildParsed(parsed) ==
    \E failing \in {{}} \cup {{i} : i \in 1..Len(files)} :
        /\ SetIndex(RebuildIndexFromFiles(parsed, Index, failing).idx)
        /\ Served("rebuild", NoneStr, "ok",
                  RebuildIndexFromFiles(parsed, Index, failing).count,
                  IF failing = {} THEN "none" ELSE "index", <<>>)

Rebuild ==
    /\ Events < MaxOps
    /\ UNCHANGED <<files, today, nextId, procs, dbLock>>
    /\ RebuildParsed([i \in 1..Len(files) |-> ParseItem(files[i].path, files[i].text)])

\* midnight passes
Tick ==
    /\ Events < MaxOps
    /\ today < MaxDay
    /\ today' = today + 1
    /\ UNCHANGED <<files, content_items, content_fts, nextId, ops, last, procs, dbLock>>

Next ==
    \/ \E n \in 1..Len(CreateInputs), pos \in 1..(Len(files) + 1), fault \in Faults :
          Create(n, pos, fault)
    \/ \E id \in AllIds : Update(id)
    \/ \E id \in AllIds : Delete(id)
    \/ \E id \in AllIds : Read(id)
    \/ Rebuild
    \/ Tick

Spec == Init /\ [][Next]_vars

\* ------------------------------------------------- requests, interleaved
\* Two server processes share the content directory and the database; each
\* serves one request, a step of which is one file or database operation.
\* The steps of a request, in the order its handler takes them:
\* (a create that indexed before it wrote)
CreateStepsIndexFirst == <<"begin", "second", "commit", "write">>
\* create_content_item
CreateSteps == <<"write", "begin", "second", "commit">>
\* update_content_item
UpdateSteps == <<"probe", "load", "read", "write", "begin", "second", "commit">>
\* delete_content_item
DeleteSteps == <<"probe", "load", "remove", "begin", "second", "commit">>

StepsOf(op) ==
    IF op = "create" THEN CreateSteps ELSE IF op = "update" THEN UpdateSteps ELSE DeleteSteps

RECURSIVE StepAfter(_, _, _)
StepAfter(steps, pc, i) ==
    IF i >= Len(steps) THEN "done"
    ELSE IF steps[i] = pc THEN steps[i + 1] ELSE StepAfter(steps, pc, i + 1)
NextPc(r) == StepAfter(StepsOf(r.op), r.pc, 1)

\* the request moves on; it answers when no step is left
Advance(r) ==
    [r EXCEPT !.pc = NextPc(r), !.out = IF NextPc(r) = "done" THEN "ok" ELSE r.out]
\* the request ends on an exception
Raise(r, why) == [r EXCEPT !.pc = "failed", !.out = why]

\* the inputs of the interleaved requests
ConcCreateInputs == {1}
ConcUpdateInputs == {1, 2}

\* one document created and indexed, on the first day
InitC ==
    LET c == CreateInputs[1]
        content_id == IdOf(1)
        file_path == GetContentFilePath(content_id, c.content_type)
    IN  /\ files = PutFile(<<>>, file_path,
                           WriteContentFile(CreateFrontmatter(content_id, c, 1), c.body), 1)
        /\ content_items = IndexContentItem([items |-> <<>>, fts |-> <<>>],
                                            CreateResult(content_id, file_path, c, 1)).items
        /\ content_fts = IndexContentItem([items |-> <<>>, fts |-> <<>>],
                                          CreateResult(content_id, file_path, c, 1)).fts
        /\ today = 1
        /\ nextId = 2
        /\ ops = 1
        /\ last = [op |-> "create", id |-> content_id, out |-> "ok", count |-> 0,
                   fault |-> "none",
                   wrote |-> WriteContentFile(CreateFrontmatter(content_id, c, 1), c.body),
                   drift |-> FALSE, again |-> FALSE, faulted |-> FALSE]
        /\ procs = Idle
        /\ dbLock = NoneStr

SetProc(p, r) == procs' = [procs EXCEPT ![p] = r]

\* create_content_item, lines 103-121: the id, the path, the front matter
CStart(p, n) ==
    LET c == CreateInputs[n]
        content_id == IdOf(nextId)
        file_path == GetContentFilePath(content_id, c.content_type)
    IN  /\ procs[p].pc = "idle"
        /\ nextId <= MaxIds
        /\ nextId' = nextId + 1
        /\ SetProc(p, [IdleProc EXCEPT !.op = "create", !.pc = CreateSteps[1],
                          !.id = content_id, !.path = file_path,
                          !.data = CreateFrontmatter(content_id, c, today), !.body = c.body,
                          !.item = CreateResult(content_id, file_path, c, today)])
        /\ UNCHANGED <<files, content_items, content_fts, today, ops, last, dbLock>>

\* a client learns the uuid4 of a document from the answer to its create
Answered(content_id) ==
    /\ \E n \in 1..(nextId - 1) : content_id = IdOf(n)
    /\ \A q \in Procs :
          (procs[q].op = "create" /\ procs[q].id = content_id) =>
              procs[q].pc \in {"done", "failed"}

\* update_content_item is called with a valid ContentUpdate
UStart(p, content_id, n) ==
    /\ procs[p].pc = "idle"
    /\ Answered(content_id)
    /\ ContentUpdateValid(UpdateInputs[n])
    /\ SetProc(p, [IdleProc EXCEPT !.op = "update", !.pc = UpdateSteps[1],
                      !.id = content_id, !.u = UpdateInputs[n]])
    /\ UNCHANGED <<files, content_items, content_fts, today, nextId, ops, last, dbLock>>

\* delete_content_item is called
DStart(p, content_id) ==
    /\ procs[p].pc = "idle"
    /\ Answered(content_id)
    /\ SetProc(p, [IdleProc EXCEPT !.op = "delete", !.pc = DeleteSteps[1], !.id = content_id])
    /\ UNCHANGED <<files, content_items, content_fts, today, nextId, ops, last, dbLock>>

\* get_content_item, lines 163-166: os.path.exists over the content types
Probe(p) ==
    /\ procs[p].pc = "probe"
    /\ IF FindPath(files, procs[p].id) = NoneStr
       THEN SetProc(p, [procs[p] EXCEPT !.pc = "done", !.out = "none"])
       ELSE SetProc(p, [Advance(procs[p]) EXCEPT !.path = FindPath(files, procs[p].id)])
    /\ UNCHANGED <<files, content_items, content_fts, today, nextId, ops, last, dbLock>>

ProbedItem(p) ==
    IF FileExists(files, procs[p].path) THEN ParseItem(procs[p].path, FileText(files, procs[p].path))
    ELSE [out |-> "error", item |-> <<>>]

\* get_content_item, lines 167-175: the file is read and validated
Load(p) ==
    /\ procs[p].pc = "load"
    /\ IF ProbedItem(p).out = "ok" THEN SetProc(p, Advance(procs[p]))
       ELSE SetProc(p, Raise(procs[p], "error"))
    /\ UNCHANGED <<files, content_items, content_fts, today, nextId, ops, last, dbLock>>

ReadOf(p) ==
    IF FileExists(files, procs[p].path) THEN ReadContentFile(FileText(files, procs[p].path))
    ELSE [ok |-> FALSE, data |-> <<>>]

\* update_content_item, lines 195-205: the file is read again, the updates
\* are applied to the mapping read
ReadStepOf(p, r) ==
    /\ procs[p].pc = "read"
    /\ IF r.ok
       THEN SetProc(p, [Advance(procs[p]) EXCEPT
                           !.data = WithoutBody(UpdatedData(r.data, procs[p].u, today)),
                           !.body = PopBody(UpdatedData(r.data, procs[p].u, today))])
       ELSE SetProc(p, Raise(procs[p], "error"))
    /\ UNCHANGED <<files, content_items, content_fts, today, nextId, ops, last, dbLock>>
ReadStep(p) == ReadStepOf(p, ReadOf(p))

\* write_content_file, then for an update the ContentResponse of lines 211-220
WriteStep(p) ==
    /\ procs[p].pc = "write"
    /\ \E pos \in 1..(Len(files) + 1) :
          files' = PutFile(files, procs[p].path,
                           WriteContentFile(procs[p].data, procs[p].body), pos)
    /\ IF procs[p].op = "create"
       THEN SetProc(p, [Advance(procs[p]) EXCEPT !.wrote = TRUE])
       ELSE IF /\ DatesConvertible(procs[p].data)
               /\ ContentResponseValid(("body" :> procs[p].body) @@ procs[p].data)
            THEN SetProc(p, [Advance(procs[p]) EXCEPT !.wrote = TRUE,
                                !.item = ContentResponse(procs[p].path,
                                             ("body" :> procs[p].body) @@ procs[p].data)])
            ELSE SetProc(p, [Raise(procs[p], "invalid") EXCEPT !.wrote = TRUE])
    /\ UNCHANGED <<content_items, content_fts, today, nextId, ops, last, dbLock>>

\* os.remove, line 244
RemoveStep(p) ==
    /\ procs[p].pc = "remove"
    /\ IF FileExists(files, procs[p].path)
       THEN /\ files' = RemoveFile(files, procs[p].path)
            /\ SetProc(p, [Advance(procs[p]) EXCEPT !.wrote = TRUE])
       ELSE /\ UNCHANGED files
            /\ SetProc(p, Raise(procs[p], "error"))
    /\ UNCHANGED <<content_items, content_fts, today, nextId, ops, last, dbLock>>

\* the document step raises an OSError
DocFail(p) ==
    /\ procs[p].pc \in {"write", "remove"}
    /\ SetProc(p, Raise(procs[p], "docfail"))
    /\ UNCHANGED <<files, content_items, content_fts, today, nextId, ops, last, dbLock>>

\* the first statement of index_content_item (lines 41-62) and of
\* remove_from_index (line 90): it takes the write lock of the database and
\* its effect stays in the transaction
FirstStatement(idx, r) ==
    IF r.op = "delete"
    THEN [items |-> RemoveFromIndex(idx, r.id).items, fts |-> idx.fts]
    ELSE [items |-> IndexContentItem(idx, r.item).items, fts |-> idx.fts]

\* the second statement (lines 65-74, line 91)
SecondStatement(txn, r) ==
    IF r.op = "delete"
    THEN [items |-> txn.items, fts |-> RemoveFromIndex(txn, r.id).fts]
    ELSE [items |-> txn.items, fts |-> IndexContentItem(txn, r.item).fts]

Begin(p) ==
    /\ procs[p].pc = "begin"
    /\ dbLock = NoneStr
    /\ dbLock' = p
    /\ SetProc(p, [Advance(procs[p]) EXCEPT !.indexed = TRUE,
                      !.txn = FirstStatement(Index, procs[p])])
    /\ UNCHANGED <<files, content_items, content_fts, today, nextId, ops, last>>

Second(p) ==
    /\ procs[p].pc = "second"
    /\ SetProc(p, [Advance(procs[p]) EXCEPT !.txn = SecondStatement(procs[p].txn, procs[p])])
    /\ UNCHANGED <<files, content_items, content_fts, today, nextId, ops, last, dbLock>>

\* conn.commit()
Commit(p) ==
    /\ procs[p].pc = "commit"
    /\ SetIndex(procs[p].txn)
    /\ dbLock' = NoneStr
    /\ SetProc(p, Advance(procs[p]))
    /\ UNCHANGED <<files, today, nextId, ops, last>>

\* an sqlite3.Error in the index step: the database is locked by the other
\* process, or a statement or the commit fails
IndexFail(p) ==
    /\ procs[p].pc \in {"begin", "second", "commit"}
    /\ IF procs[p].pc = "begin"
       THEN UNCHANGED <<content_items, content_fts, dbLock>>
       ELSE /\ SetIndex(Rollback(Index, procs[p].txn))
            /\ dbLock' = NoneStr
    /\ SetProc(p, [Raise(procs[p], "indexfail") EXCEPT !.indexed = TRUE])
    /\ UNCHANGED <<files, today, nextId, ops, last>>

NextC ==
    \/ \E p \in Procs, n \in ConcCreateInputs : CStart(p, n)
    \/ \E p \in Procs, id \in AllIds, n \in ConcUpdateInputs : UStart(p, id, n)
    \/ \E p \in Procs, id \in AllIds : DStart(p, id)
    \/ \E p \in Procs : Probe(p)
    \/ \E p \in Procs : Load(p)
    \/ \E p \in Procs : ReadStep(p)
    \/ \E p \in Procs : WriteStep(p)
    \/ \E p \in Procs : RemoveStep(p)
    \/ \E p \in Procs : DocFail(p)
    \/ \E p \in Procs : Begin(p)
    \/ \E p \in Procs : Second(p)
    \/ \E p \in Procs : Commit(p)
    \/ \E p \in Procs : IndexFail(p)

SpecC == InitC /\ [][NextC]_vars

\* ------------------------------------------- the index, called directly
\* The search service used on its own, as its callers and its tests use it:
\* index_content_item, remove_from_index, search_content and
\* get_unique_values on a database that starts empty.

\* the keyword arguments of the ContentResponse items indexed, but the id and
\* the file path
BaseIndexed ==
    [title |-> <<"SEO">>, content_type |-> "blog", status |-> "published",
     created_date |-> DateObj(1), updated_date |-> DateObj(1), client |-> "ClientA",
     author |-> <<"Bob">>, tags |-> <<"seo">>, categories |-> <<>>,
     custom_fields |-> <<>>, body |-> <<"hello">>]
IndexedInputs ==
    << BaseIndexed,
       [BaseIndexed EXCEPT !.title = <<"Demo">>, !.content_type = "video",
                           !.client = "ClientB", !.author = <<"Ann">>,
                           !.tags = <<"demo", "news">>, !.body = <<"demo">>],
       [BaseIndexed EXCEPT !.status = "draft", !.client = NoneStr, !.author = NONE,
                           !.custom_fields = << <<"client", "ClientA">> >>,
                           !.tags = <<>>, !.created_date = DateObj(2),
                           !.updated_date = DateObj(2)],
       [BaseIndexed EXCEPT !.title = <<"Demo">>, !.tags = <<"news">>,
                           !.updated_date = DateObj(2), !.body = <<"bye">>],
       BaseIndexed >>

\* the inputs indexed with the one file_path the tests give whatever the id,
\* "/tmp/test.md"
FixedPathInputs == {5}
IndexedPath(id, n) ==
    IF n \in FixedPathInputs THEN "tmp/test.md"
    ELSE GetContentFilePath(id, IndexedInputs[n].content_type)

\* the item index_content_item is given for the id and the n-th input:
\* ContentResponse(id=..., file_path=..., **kwargs)
IndexedItem(id, n) ==
    ContentResponse(IndexedPath(id, n), ("id" :> id) @@ IndexedInputs[n])

\* the searches made: limit is at least 1 and offset at least 0, as the
\* routes have them
SearchInputs ==
    { NoFilter,
      [NoFilter EXCEPT !.query = "seo"],
      [NoFilter EXCEPT !.query = "demo"],
      [NoFilter EXCEPT !.content_types = <<"blog">>],
      [NoFilter EXCEPT !.content_types = <<"blog", "video">>],
      [NoFilter EXCEPT !.statuses = <<"published">>],
      [NoFilter EXCEPT !.tags = <<"SEO">>],
      [NoFilter EXCEPT !.tags = <<"seo", "news">>],
      [NoFilter EXCEPT !.client = "ClientA"],
      [NoFilter EXCEPT !.client = "ClientB"],
      [NoFilter EXCEPT !.date_from = IsoOfDay(2)],
      [NoFilter EXCEPT !.date_to = IsoOfDay(1)],
      [NoFilter EXCEPT !.content_types = <<"blog">>, !.tags = <<"news">>],
      [NoFilter EXCEPT !.query = "demo", !.statuses = <<"published">>,
                       !.date_to = IsoOfDay(1)],
      [NoFilter EXCEPT !.content_types = <<"blog">>, !.client = "ClientA"],
      [NoFilter EXCEPT !.limit = 1],
      [NoFilter EXCEPT !.limit = 1, !.offset = 1],
      [NoFilter EXCEPT !.limit = 2, !.offset = 1],
      [NoFilter EXCEPT !.content_types = <<"blog">>, !.limit = 1],
      [NoFilter EXCEPT !.content_types = <<"blog">>, !.limit = 1, !.offset = 1] }

UniqueFields == {"content_type", "status", "author", "client", "title"}

\* the record of a call: given[id] is the number of the input the id was
\* last indexed with, 0 when it was never indexed or was removed since; had
\* is the number of full-text rows a removed id had
NoCall ==
    [op |-> "init", id |-> NoneStr, given |-> [id \in AllIds |-> 0], had |-> 0,
     f |-> NoFilter, result |-> [items |-> <<>>, total |-> 0],
     field |-> NoneStr, values |-> <<>>]

InitI ==
    /\ files = <<>>
    /\ content_items = <<>>
    /\ content_fts = <<>>
    /\ today = 1
    /\ nextId = 1
    /\ ops = 0
    /\ last = NoCall
    /\ procs = Idle
    /\ dbLock = NoneStr

Called(call) ==
    /\ ops < MaxOps
    /\ ops' = ops + 1
    /\ last' = call
    /\ UNCHANGED <<files, today, nextId, procs, dbLock>>

\* index_content_item(item)
Upsert(id, n) ==
    /\ SetIndex(IndexContentItem(Index, IndexedItem(id, n)))
    /\ Called([NoCall EXCEPT !.op = "upsert", !.id = id,
                             !.given = [j \in AllIds |->
                                          IF j = id THEN n
                                          ELSE IF RowsOf(content_items', j) = {} THEN 0
                                          ELSE last.given[j]]])

\* remove_from_index(id)
Remove(id) ==
    /\ SetIndex(RemoveFromIndex(Index, id))
    /\ Called([NoCall EXCEPT !.op = "remove", !.id = id,
                             !.given = [last.given EXCEPT ![id] = 0],
                             !.had = Cardinality(FtsRowsOf(content_fts, id))])

\* search_content(**f)
Search(f) ==
    /\ UNCHANGED <<content_items, content_fts>>
    /\ Called([NoCall EXCEPT !.op = "search", !.given = last.given, !.f = f,
                             !.result = SearchContent(Index, f)])

\* get_unique_values(field)
Unique(field) ==
    /\ UNCHANGED <<content_items, content_fts>>
    /\ Called([NoCall EXCEPT !.op = "unique", !.given = last.given, !.field = field,
                             !.values = GetUniqueValues(Index, field)])

NextI ==
    \/ \E id \in AllIds, n \in 1..Len(IndexedInputs) : Upsert(id, n)
    \/ \E id \in AllIds : Remove(id)
    \/ \E f \in SearchInputs : Search(f)
    \/ \E field \in UniqueFields : Unique(field)

SpecI == InitI /\ [][NextI]_vars

\* ------------------------------------------- documents placed by hand
\* The document root is a directory of text files that people also edit,
\* copy and add by hand; rebuild_index_from_files takes whatever *.md files
\* it finds there. The files placed: two items, a copy of the first under
\* another content type, and three files that are no item.
PlacedFiles ==
    << [path |-> GetContentFilePath(IdOf(1), "blog"),
        text |-> WriteContentFile(CreateFrontmatter(IdOf(1), CreateInputs[1], 1),
                                  CreateInputs[1].body)],
       [path |-> GetContentFilePath(IdOf(1), "video"),
        text |-> WriteContentFile(CreateFrontmatter(IdOf(1), CreateInputs[2], 1),
                                  CreateInputs[2].body)],
       [path |-> GetContentFilePath(IdOf(2), "blog"),
        text |-> WriteContentFile(CreateFrontmatter(IdOf(2), CreateInputs[1], 1),
                                  CreateInputs[1].body)],
       \* no metadata block
       [path |-> GetContentFilePath("notes", "blog"), text |-> <<"hello">>],
       \* a metadata block that is no YAML: a quote is left open
       [path |-> GetContentFilePath("broken", "blog"),
        text |-> <<DELIM, NL, KeyAtom("title"), QUOTE, "SEO", NL, DELIM, NL, NL, "hello">>],
       \* a metadata block without the required id, content_type and dates
       [path |-> GetContentFilePath("partial", "blog"),
        text |-> WriteContentFile([title |-> <<"SEO">>], <<"hello">>)] >>

\* what the files read as, file by file
ParsedFiles(fs) == [i \in 1..Len(fs) |-> ParseItem(fs[i].path, fs[i].text)]

\* the directory listings of up to MaxFiles of the files, in any scan order
PlacedListings ==
    {fs \in UNION {[1..n -> Range(PlacedFiles)] : n \in 0..MaxFiles} :
        \A i, j \in 1..Len(fs) : fs[i] = fs[j] => i = j}

\* the files are in place and the database has just been initialised
InitR ==
    /\ files \in PlacedListings
    /\ content_items = <<>>
    /\ content_fts = <<>>
    /\ today = 1
    /\ nextId = MaxIds + 1
    /\ ops = 0
    /\ last = [op |-> "init", id |-> NoneStr, out |-> "ok", count |-> 0, fault |-> "none",
               wrote |-> <<>>, drift |-> FALSE, again |-> FALSE, faulted |-> FALSE]
    /\ procs = Idle
    /\ dbLock = NoneStr

NextR ==
    \/ Rebuild
    \/ \E id \in AllIds : Delete(id)

SpecR == InitR /\ [][NextR]_vars

\* ------------------------------------------- a rebuild beside a delete
\* One process runs rebuild_index_from_files while the other serves a
\* delete; a step is one file operation or one committed index transaction.
\* The rebuild keeps the paths it has still to read in scan, the item it has
\* parsed in item, and its count.
RebuildProc ==
    [pc |-> "clear", op |-> "rebuild", id |-> NoneStr, path |-> NoneStr, u |-> <<>>,
     data |-> <<>>, body |-> <<>>, item |-> <<>>, txn |-> <<>>, wrote |-> FALSE,
     indexed |-> FALSE, out |-> "", scan |-> <<>>, count |-> 0]

\* two documents created and indexed, on the first day
InitD ==
    \A created \in {RebuildIndexFromFiles(
                       ParsedFiles(<<PlacedFiles[1], PlacedFiles[3]>>),
                       [items |-> <<>>, fts |-> <<>>], {}).idx} :
        /\ files = <<PlacedFiles[1], PlacedFiles[3]>>
        /\ content_items = created.items
        /\ content_fts = created.fts
        /\ today = 1
        /\ nextId = 3
        /\ ops = 0
        /\ last = [op |-> "init", id |-> NoneStr, out |-> "ok", count |-> 0,
                   fault |-> "none", wrote |-> <<>>, drift |-> FALSE, again |-> FALSE,
                   faulted |-> FALSE]
        /\ procs = Idle
        /\ dbLock = NoneStr

\* rebuild_index_from_files is called, once
RStart(p) ==
    /\ procs[p].pc = "idle"
    /\ \A q \in Procs : procs[q].op # "rebuild"
    /\ SetProc(p, RebuildProc)
    /\ UNCHANGED <<files, content_items, content_fts, today, nextId, ops, last, dbLock>>

\* delete_content_item is called, once
DStartOnce(p, content_id) ==
    /\ \A q \in Procs : procs[q].op # "delete"
    /\ DStart(p, content_id)

\* lines 225-227: both tables are emptied and the transaction commits
RClear(p) ==
    /\ procs[p].pc = "clear"
    /\ dbLock = NoneStr
    /\ SetIndex(ClearIndex(Index))
    /\ SetProc(p, [procs[p] EXCEPT !.pc = "scan"])
    /\ UNCHANGED <<files, today, nextId, ops, last, dbLock>>

\* the pc of a rebuild with the paths in scan still to read
ScanPc(scan) == IF scan = <<>> THEN "done" ELSE "rread"
\* the rebuild goes on to the paths left
ScanOn(r, scan, count) ==
    [r EXCEPT !.pc = ScanPc(scan), !.scan = scan, !.count = count, !.item = <<>>,
              !.out = IF scan = <<>> THEN "ok" ELSE r.out]

\* line 233: rglob lists the *.md files under the root
RScan(p) ==
    /\ procs[p].pc = "scan"
    /\ SetProc(p, ScanOn(procs[p], [i \in 1..Len(files) |-> files[i].path], 0))
    /\ UNCHANGED <<files, content_items, content_fts, today, nextId, ops, last, dbLock>>

\* what the rebuild reads at the path: a file removed since the scan raises
ScannedItem(fs, path) ==
    IF FileExists(fs, path) THEN ParseItem(path, FileText(fs, path))
    ELSE [out |-> "error", item |-> <<>>]

\* lines 235-243: the file is read, its dates are converted and the
\* ContentResponse is built; a failure skips the file
RReadOf(p, r) ==
    /\ procs[p].pc = "rread"
    /\ IF r.out = "ok"
       THEN SetProc(p, [procs[p] EXCEPT !.pc = "rindex", !.item = r.item])
       ELSE SetProc(p, ScanOn(procs[p], Tail(procs[p].scan), procs[p].count))
    /\ UNCHANGED <<files, content_items, content_fts, today, nextId, ops, last, dbLock>>
RRead(p) == RReadOf(p, ScannedItem(files, Head(procs[p].scan)))

\* lines 244-245: index_content_item commits and the file is counted
RIndex(p) ==
    /\ procs[p].pc = "rindex"
    /\ dbLock = NoneStr
    /\ SetIndex(IndexContentItem(Index, procs[p].item))
    /\ SetProc(p, ScanOn(procs[p], Tail(procs[p].scan), procs[p].count + 1))
    /\ UNCHANGED <<files, today, nextId, ops, last, dbLock>>

\* lines 246-248: index_content_item raises, the file is skipped
RIndexFail(p) ==
    /\ procs[p].pc = "rindex"
    /\ SetProc(p, ScanOn(procs[p], Tail(procs[p].scan), procs[p].count))
    /\ UNCHANGED <<files, content_items, content_fts, today, nextId, ops, last, dbLock>>

NextD ==
    \/ \E p \in Procs : RStart(p)
    \/ \E p \in Procs, id \in AllIds : DStartOnce(p, id)
    \/ \E p \in Procs : RClear(p)
    \/ \E p \in Procs : RScan(p)
    \/ \E p \in Procs : RRead(p)
    \/ \E p \in Procs : RIndex(p)
    \/ \E p \in Procs : RIndexFail(p)
    \/ \E p \in Procs : Probe(p)
    \/ \E p \in Procs : Load(p)
    \/ \E p \in Procs : RemoveStep(p)
    \/ \E p \in Procs : DocFail(p)
    \/ \E p \in Procs : Begin(p)
    \/ \E p \in Procs : Second(p)
    \/ \E p \in Procs : Commit(p)
    \/ \E p \in Procs : IndexFail(p)

SpecD == InitD /\ [][NextD]_vars

\* ------------------------------------------------------------- properties
\* C1: when every index write has succeeded, after each request the index has
\* a row for an id exactly when the id has a document file, and the row
\* holds the values the document stores
C1_IndexReflectsStore ==
    ~last.faulted => \A id \in AllIds : InSync(files, content_items, id)

\* ---- C2
ItemIds(items) == {items[i].id : i \in 1..Len(items)}
\* the ids of the files that parse as content items
ParsedIds(fs) ==
    {ParseItem(fs[i].path, fs[i].text).item.id :
        i \in {j \in 1..Len(fs) : ParseItem(fs[j].path, fs[j].text).out = "ok"}}

\* C2: whatever the index held before, after a rebuild whose index writes all
\* succeeded the scalar table and the full-text table hold exactly the ids of
\* the files that parse as content items, and every row equals its document
C2_RebuildRepairs ==
    (last.op = "rebuild" /\ last.fault = "none") =>
        /\ ItemIds(content_items) = ParsedIds(files)
        /\ ItemIds(content_fts) = ParsedIds(files)
        /\ \A i \in 1..Len(content_items) :
              \E j \in 1..Len(files) :
                  /\ ParseItem(files[j].path, files[j].text).out = "ok"
                  /\ ParseItem(files[j].path, files[j].text).item.id = content_items[i].id
                  /\ RowEqualsFile(content_items[i], files[j].text)

\* a rebuild has repaired an index that had drifted from the files
C2_Witness ==
    /\ last.op = "rebuild" /\ last.fault = "none"
    /\ content_items # <<>>
    /\ last.drift
    /\ \E id \in AllIds : FilesOf(files, id) # {} /\ InSync(files, content_items, id)

\* ---- C3
\* the searches compared
SearchFilters ==
    { NoFilter,
      [NoFilter EXCEPT !.query = "seo"],
      [NoFilter EXCEPT !.query = "demo"],
      [NoFilter EXCEPT !.content_types = <<"blog">>],
      [NoFilter EXCEPT !.statuses = <<"published">>],
      [NoFilter EXCEPT !.tags = <<"SEO">>],
      [NoFilter EXCEPT !.date_from = IsoOfDay(2)],
      [NoFilter EXCEPT !.limit = 1],
      [NoFilter EXCEPT !.offset = 1] }

\* C3: a rebuild that follows a rebuild, no document changed in between,
\* returns the count the first returned, and every search answers on its
\* index what it answered on the index the first left
C3_RebuildIdempotent ==
    [][(/\ ops' = ops + 1
        /\ last'.op = "rebuild" /\ last'.again /\ last'.fault = "none") =>
           /\ last'.count = last.count
           /\ \A f \in SearchFilters :
                 SearchContent([items |-> content_items', fts |-> content_fts'], f)
                     = SearchContent(Index, f)]_vars

\* two rebuilds in a row over a store with a document that is indexed
C3_Witness ==
    /\ last.op = "rebuild" /\ last.again /\ last.fault = "none"
    /\ last.count >= 1
    /\ SearchContent(Index, NoFilter).total >= 1

\* ---- C4
\* C4: for every id the full-text table holds exactly one row when the scalar
\* table holds a row for the id, and none otherwise
C4_FtsOneToOne ==
    \A id \in AllIds :
        Cardinality(FtsRowsOf(content_fts, id)) =
            IF RowsOf(content_items, id) = {} THEN 0 ELSE 1

\* ---- C7
\* C7: when the index step of a create, update or delete fails after its
\* document step, the request answers with the error, the file is as the
\* request wrote it (removed, for a delete) and both tables are as they were
C7_IndexFailureKeepsDocument ==
    [][(/\ ops' = ops + 1
        /\ last'.fault = "index" /\ last'.op \in {"create", "update", "delete"}) =>
           /\ last'.out = "error"
           /\ content_items' = content_items
           /\ content_fts' = content_fts
           /\ IF last'.op = "delete"
              THEN FilesOf(files, last'.id) # {} /\ FilesOf(files', last'.id) = {}
              ELSE /\ FilesOf(files', last'.id) # {}
                   /\ \A j \in FilesOf(files', last'.id) : files'[j].text = last'.wrote]_vars

\* an update of an indexed document has failed in its index step, leaving a
\* row that is older than the file
C7_Witness ==
    /\ last.fault = "index" /\ last.op = "update" /\ last.out = "error"
    /\ RowsOf(content_items, last.id) # {}
    /\ ~InSync(files, content_items, last.id)

\* ---- C8
\* C8: an update that is rejected or makes the item invalid leaves the files
\* and both tables as they were
C8_InvalidUpdateChangesNothing ==
    [][(/\ ops' = ops + 1
        /\ last'.op = "update" /\ last'.out \in {"rejected", "invalid"}) =>
           /\ files' = files
           /\ content_items' = content_items
           /\ content_fts' = content_fts]_vars

\* ---- C9
\* C9: every document file can be returned by a read by id (and so deleted by
\* id), and is indexed by a rebuild
C9_DocumentsStayUsable ==
    \A id \in AllIds :
        FilesOf(files, id) # {} =>
            /\ GetContentItem(files, id).out = "ok"
            /\ \A j \in FilesOf(files, id) : ParseItem(files[j].path, files[j].text).out = "ok"

\* ---- C5
\* the last full-text row of the id
LastFts(fts, id) == fts[CHOOSE i \in FtsRowsOf(fts, id) : \A j \in FtsRowsOf(fts, id) : j <= i]

\* C5: what a reader sees of the two tables is never one write of an upsert or
\* of a removal without the other: an id has a scalar row exactly when it has
\* a full-text row, and the newest full-text row carries the title and the
\* tags of the scalar row; and of the upsert of a create that failed neither
\* row is visible (until another request indexes the id)
C5_UpsertAtomic ==
    /\ \A id \in AllIds :
          /\ (RowsOf(content_items, id) # {}) <=> (FtsRowsOf(content_fts, id) # {})
          /\ \A i \in RowsOf(content_items, id) :
                /\ LastFts(content_fts, id).title = content_items[i].title
                /\ LastFts(content_fts, id).tags =
                      JoinSpace(JsonLoadsList(content_items[i].tags_json))
    /\ \A p \in Procs :
          (/\ procs[p].out = "indexfail" /\ procs[p].op = "create"
           /\ \A q \in Procs \ {p} : procs[q].id = procs[p].id => ~procs[q].indexed) =>
              /\ RowsOf(content_items, procs[p].id) = {}
              /\ FtsRowsOf(content_fts, procs[p].id) = {}

\* an upsert that changes the title has failed after its first write
C5_Witness ==
    \E p \in Procs :
        /\ procs[p].out = "indexfail" /\ procs[p].op = "update"
        /\ procs[p].txn # <<>>
        /\ procs[p].txn.items # content_items
        /\ \E i \in RowsOf(procs[p].txn.items, procs[p].id) :
              \E j \in RowsOf(content_items, procs[p].id) :
                  procs[p].txn.items[i].title # content_items[j].title

\* ---- C6
\* C6: a request has touched the index only if its document step is done; a
\* request whose document step failed has not touched the index
C6_DocumentBeforeIndex ==
    \A p \in Procs :
        /\ procs[p].indexed => procs[p].wrote
        /\ procs[p].out = "docfail" => ~procs[p].indexed /\ procs[p].txn = <<>>

\* a create, an update and a delete each at its index step, and a document
\* step that failed
C6_Witness ==
    /\ \E p \in Procs : procs[p].out = "docfail"
    /\ \E p \in Procs : procs[p].indexed /\ procs[p].wrote

\* ---- C10
\* the requests have all completed without error, and they are mutations of
\* the one id
AllDoneOn(id) ==
    \A p \in Procs : procs[p].pc = "done" /\ procs[p].out = "ok" /\ procs[p].id = id

\* C10: once two interleaved mutations of an id have both completed without
\* error, the index row of the id equals the document of the id, or both are
\* absent
C10_InterleavedMutationsConverge ==
    \A id \in AllIds : AllDoneOn(id) => InSync(files, content_items, id)

\* ---- C11
\* the search f without pagination
Unpaged(f) == [f EXCEPT !.limit = 50, !.offset = 0]
ResultIds(result) == {result.items[i].id : i \in 1..Len(result.items)}

\* C11: once an id has been removed from the index, and until it is indexed
\* again, no search (unfiltered, filtered or free-text) returns an item with
\* that id, and every total is the number of the items returned, none of
\* which has the id
C11_RemovedIsGone ==
    \A id \in AllIds :
        last.given[id] = 0 =>
            \A f \in SearchInputs :
                \A all \in {SearchContent(Index, Unpaged(f))} :
                    /\ id \notin ResultIds(all)
                    /\ all.total = Len(all.items)
                    /\ id \notin ResultIds(SearchContent(Index, f))

\* an id that was indexed twice, and had two full-text rows, has been removed
C11_Witness ==
    /\ last.op = "remove"
    /\ last.had >= 2
    /\ last.given[last.id] = 0

\* ---- C12
\* the rows of a table that belong to other ids, in rowid order
OtherRows(rows, id) == SelectSeq(rows, LAMBDA r : r.id # id)

\* C12: a removal leaves the rows of every other id in both tables as they
\* were, leaves no row of the removed id, and when the id had no row in
\* either table the removal completes and the whole index is as it was
C12_RemoveFrame ==
    [][(ops' = ops + 1 /\ last'.op = "remove") =>
          /\ OtherRows(content_items', last'.id) = OtherRows(content_items, last'.id)
          /\ OtherRows(content_fts', last'.id) = OtherRows(content_fts, last'.id)
          /\ RowsOf(content_items', last'.id) = {}
          /\ FtsRowsOf(content_fts', last'.id) = {}
          /\ (RowsOf(content_items, last'.id) = {} /\ FtsRowsOf(content_fts, last'.id) = {})
                => (content_items' = content_items /\ content_fts' = content_fts)]_vars

\* an indexed id has been removed from an index that holds another id
C12_Witness ==
    /\ last.op = "remove"
    /\ last.had >= 1
    /\ content_items # <<>>
    /\ content_fts # <<>>

\* an id without rows has been removed from an index that is not empty
C12_WitnessAbsent ==
    /\ last.op = "remove"
    /\ last.had = 0
    /\ content_items # <<>>

\* ---- C13
\* C13: a search with tags returns exactly the indexed items that satisfy
\* its other filters and have a tag equal to one of the requested tags
C13_TagsMatchExactly ==
    (last.op = "search" /\ last.f.tags # <<>>) =>
        ResultIds(SearchContent(Index, Unpaged(last.f)))
            = {r.id : r \in {x \in Range(SearchContent(Index,
                                      Unpaged([last.f EXCEPT !.tags = <<>>])).items) :
                                 Range(x.tags) \cap Range(last.f.tags) # {}}}

\* ---- C14
\* the client the id was last indexed with, NoneStr when it is not indexed
ClientGiven(id) ==
    IF last.given[id] = 0 THEN NoneStr ELSE IndexedInputs[last.given[id]].client
\* the client a returned item carries
ClientOf(item) == IF "client" \in DOMAIN item THEN item.client ELSE NoneStr
\* the indexed ids whose client is c
IdsOfClient(c) == {id \in AllIds : last.given[id] # 0 /\ ClientGiven(id) = c}

\* C14: a search by client alone returns exactly the items that were indexed
\* with that client, its total is their number, and each item returned
\* carries that client
C14_ClientFilter ==
    (/\ last.op = "search"
     /\ last.f.client # NoneStr
     /\ last.f = [NoFilter EXCEPT !.client = last.f.client]) =>
        /\ ResultIds(last.result) = IdsOfClient(last.f.client)
        /\ last.result.total = Cardinality(IdsOfClient(last.f.client))
        /\ \A i \in 1..Len(last.result.items) :
               ClientOf(last.result.items[i]) = last.f.client

\* ---- C15
\* C15: the item built from keyword arguments that give a client carries that
\* client, and every item a later unfiltered search returns carries the
\* client its id was last indexed with (none when none was given)
C15_ClientRoundTrip ==
    /\ last.op = "upsert" =>
           ClientOf(IndexedItem(last.id, last.given[last.id])) = ClientGiven(last.id)
    /\ (last.op = "search" /\ last.f = NoFilter) =>
           \A i \in 1..Len(last.result.items) :
               ClientOf(last.result.items[i]) = ClientGiven(last.result.items[i].id)

\* ---- C16
\* the non-null values the items now indexed were given for the field
IndexedValues(field) ==
    LET ids == {id \in AllIds : last.given[id] # 0}
    IN  IF field = "client" THEN {ClientGiven(id) : id \in ids} \ {NoneStr}
        ELSE IF field = "author"
             THEN {IndexedInputs[last.given[id]].author : id \in ids} \ {NONE}
             ELSE {IndexedInputs[last.given[id]][field] : id \in ids} \ {NoneStr}
\* the sequence follows the order and repeats nothing
StrictlySorted(order, values) ==
    \A i, j \in 1..Len(values) :
        i < j => \E a, b \in 1..Len(order) :
                    a < b /\ order[a] = values[i] /\ order[b] = values[j]

\* C16: get_unique_values of content_type, status, author or client returns,
\* sorted and without duplicates, exactly the non-null values of the field
\* over the items now indexed, the client being the one an item was indexed
\* with
C16_UniqueValues ==
    (last.op = "unique" /\ last.field \in {"content_type", "status", "author", "client"}) =>
        /\ Range(last.values) = IndexedValues(last.field)
        /\ StrictlySorted(IF last.field = "author" THEN AuthorOrder ELSE WordOrder,
                          last.values)

\* ---- C17
\* the first n elements of a sequence, all of them when it has fewer
FirstN(seq, n) == SubSeq(seq, 1, IF n < Len(seq) THEN n ELSE Len(seq))
NoDuplicateIds(items) ==
    \A i, j \in 1..Len(items) : items[i].id = items[j].id => i = j

UpdatedDay(item) == DayOfIso(IsoFormat(item.updated_date))
\* the items are in descending order of updated_date
UpdatedDescending(items) ==
    \A i, j \in 1..Len(items) : i < j => UpdatedDay(items[i]) >= UpdatedDay(items[j])
\* the index rows that satisfy every filter of f
MatchingRows(f) ==
    {i \in 1..Len(content_items) : RowMatches(content_items[i], content_fts, f)}

\* C18: the total of a search is the number of index rows that satisfy all
\* its filters, whatever its limit and offset; its items are the rows at the
\* positions offset to offset + limit - 1 of the matches in descending order
\* of updated_date, and never more than limit
C18_TotalAndPage ==
    last.op = "search" =>
        \A all \in {SearchContent(Index, Unpaged(last.f))} :
            /\ last.result.total = Cardinality(MatchingRows(last.f))
            /\ last.result.total = all.total
            /\ Len(all.items) = last.result.total
            /\ UpdatedDescending(all.items)
            /\ last.result.items
                  = SubSeq(all.items, last.f.offset + 1,
                           IF last.f.offset + last.f.limit < last.result.total
                           THEN last.f.offset + last.f.limit ELSE last.result.total)
            /\ Len(last.result.items) <= last.f.limit

\* the second page of one item has been read where two items match
C18_Witness ==
    /\ last.op = "search" /\ last.f.offset = 1 /\ last.f.limit = 1
    /\ last.result.total = 2
    /\ Len(last.result.items) = 1

\* ---- C19
FilterKeys ==
    {"query", "content_types", "statuses", "tags", "client", "date_from", "date_to"}
\* the search with the filter k of f and no other
Only(f, k) == [NoFilter EXCEPT ![k] = f[k]]

ItemKeys == AllKeys \cup {"file_path", "body"}
RowColumn(k) == IF k \in ListKeys \cup DictKeys THEN k \o "_json" ELSE k
RowKeys == (AllKeys \cup {"file_path", "client"})
\* the step is an update of last'.id that answered
UpdateAnswered == ops' = ops + 1 /\ last'.op = "update" /\ last'.out = "ok"
\* the update wrote the mapping data
WroteData(data) == last'.wrote = WriteContentFile(WithoutBody(data), PopBody(data))
\* the update was one by the n-th input: current is the mapping it read
WroteBy(current, n) ==
    /\ ContentUpdateValid(UpdateInputs[n])
    /\ WroteData(UpdatedData(current, UpdateInputs[n], today))
\* the keys an update by the n-th input may change
Supplied(n) == DOMAIN UpdateInputs[n] \cup {"updated_date"}
\* before and after are the document as read by id before and after the step
DocumentFrame(before, after, n) ==
    /\ after.out = "ok"
    /\ \A k \in ItemKeys \ Supplied(n) : after.item[k] = before.item[k]
RowFrame(n) ==
    \A i \in RowsOf(content_items, last'.id) :
        \A j \in RowsOf(content_items', last'.id) :
            \A k \in RowKeys \ Supplied(n) :
                content_items'[j][RowColumn(k)] = content_items[i][RowColumn(k)]
\* row tells whether the index row is held to the frame as well
UpdateFrame(before, after, current, row) ==
    \A n \in 1..Len(UpdateInputs) :
        \/ DocumentFrame(before, after, n) /\ (row => RowFrame(n))
        \/ ~WroteBy(current, n)

\* C20: an update by id that answers leaves every field it was not given,
\* but updated_date, as it was, in the document as read by id (id,
\* created_date, file_path and body among them) and in the index row
C20_UpdateFrame ==
    [][UpdateAnswered =>
          \A before \in {GetContentItem(files, last'.id)},
             after \in {GetContentItem(files', last'.id)} :
              before.out = "ok" =>
                  \A current \in {ReadExisting(files, before)} :
                      UpdateFrame(before, after, current, TRUE)]_vars

\* C20, amended: an update by id that answers leaves every field of the
\* document it was not given, but updated_date, as it was; it leaves those
\* columns of the index row as they were when the row held the values of the
\* document before the update
C20_UpdateFrameInSync ==
    [][UpdateAnswered =>
          \A before \in {GetContentItem(files, last'.id)},
             after \in {GetContentItem(files', last'.id)},
             row \in {InSync(files, content_items, last'.id)} :
              before.out = "ok" =>
                  \A current \in {ReadExisting(files, before)} :
                      UpdateFrame(before, after, current, row)]_vars

\* a document created on the first day with a body has been updated on the
\* second, and its index row has followed
C20_Witness ==
    /\ last.op = "update" /\ last.out = "ok"
    /\ GetContentItem(files, last.id).out = "ok"
    /\ GetContentItem(files, last.id).item.created_date = DateObj(1)
    /\ GetContentItem(files, last.id).item.updated_date = DateObj(2)
    /\ GetContentItem(files, last.id).item.body # <<>>
    /\ \E i \in RowsOf(content_items, last.id) :
           content_items[i].updated_date = IsoOfDay(2)

\* ---- C21
\* the day of a date of an item read from a document
DayOfDate(x) == DayOfIso(IsoFormat(x))
\* every document that reads as an item and every index row has an
\* updated_date that is not before its created_date
DatesOrdered(fs, items) ==
    /\ \A f \in fs :
          \A r \in {ParseItem(f.path, f.text)} :
              r.out = "ok" => DayOfDate(r.item.updated_date) >= DayOfDate(r.item.created_date)
    /\ \A row \in items :
          DayOfIso(row.updated_date) >= DayOfIso(row.created_date)
\* the document of the id, read by id, carries the two days
DocumentDays(fs, id, created, updated) ==
    \A r \in {GetContentItem(fs, id)} :
        r.out = "ok" => /\ DayOfDate(r.item.created_date) = created
                        /\ DayOfDate(r.item.updated_date) = updated

\* C21: every document and every index row that a request writes has
\* updated_date >= created_date (the store starts empty, so every document
\* and row has it); a create sets both dates to the current day,
\* and an update that answers sets updated_date to the current day and
\* leaves created_date as it was
C21_DatesOrdered ==
    [][/\ DatesOrdered(Range(files') \ Range(files),
                       Range(content_items') \ Range(content_items))
       /\ (ops' = ops + 1 /\ last'.op = "create") =>
              /\ DocumentDays(files', last'.id, today, today)
              /\ \A i \in RowsOf(content_items', last'.id) :
                     /\ content_items'[i].created_date = IsoOfDay(today)
                     /\ content_items'[i].updated_date = IsoOfDay(today)
       /\ UpdateAnswered =>
              \A before \in {GetContentItem(files, last'.id)} :
                  /\ DocumentDays(files', last'.id,
                                  DayOfDate(before.item.created_date), today)
                  /\ \A i \in RowsOf(content_items', last'.id) :
                         /\ content_items'[i].updated_date = IsoOfDay(today)
                         /\ content_items'[i].created_date
                                = IsoFormat(before.item.created_date)]_vars

\* a document created on the first day has been updated on the second, and
\* its row carries the two days
C21_Witness ==
    /\ last.op = "update" /\ last.out = "ok"
    /\ \E i \in RowsOf(content_items, last.id) :
           /\ content_items[i].created_date = IsoOfDay(1)
           /\ content_items[i].updated_date = IsoOfDay(2)


\* the mapping and the body a create request of input n hands to
\* write_content_file for the id on the day
WrittenBy(id, n, day) ==
    [metadata |-> CreateFrontmatter(id, CreateInputs[n], day), body |-> CreateInputs[n].body]

\* read_content_file of the text gives back the mapping and the body
ReadsBack(text, w) ==
    \A r \in {ReadContentFile(text)} :
        /\ r.ok
        /\ r.data = ("body" :> w.body) @@ w.metadata

\* C22: the file a create writes for a metadata mapping and a body reads back
\* as the same metadata keys and values and the same body, also for a body
\* with leading or trailing whitespace and for text that contains '---'
C22_WriteReadRoundTrip ==
    [][(ops' = ops + 1 /\ last'.op = "create") =>
           \A n \in 1..Len(CreateInputs) :
               \A w \in {WrittenBy(last'.id, n, today)} :
                   last'.wrote = WriteContentFile(w.metadata, w.body)
                       => ReadsBack(last'.wrote, w)]_vars


\* get_content_item, which the read, update and delete handlers all call
\* first, answers the id with an item of the title and the body
FoundWith(fs, id, title, body) ==
    \A r \in {GetContentItem(fs, id)} :
        /\ r.out = "ok"
        /\ r.item.title = title
        /\ r.item.body = body

\* C23: after a create that succeeds, whatever content_type it was given,
\* read by id returns the item with the created title and body, and update
\* and delete by id find it
C23_CreatedIsFound ==
    [][(ops' = ops + 1 /\ last'.op = "create" /\ last'.out = "ok") =>
           \A n \in 1..Len(CreateInputs) :
               \A w \in {WrittenBy(last'.id, n, today)} :
                   last'.wrote = WriteContentFile(w.metadata, w.body)
                       => FoundWith(files', last'.id, CreateInputs[n].title,
                                    CreateInputs[n].body)]_vars


\* every document that reads as an item is stored at the path of its id and
\* its content_type, every row holds that path, and no path is held twice
PathsCanonical(fs, items) ==
    /\ \A i \in 1..Len(fs) :
          \A r \in {ParseItem(fs[i].path, fs[i].text)} :
              r.out = "ok" =>
                  fs[i].path = GetContentFilePath(r.item.id, r.item.content_type)
    /\ \A i \in 1..Len(items) :
          items[i].file_path = GetContentFilePath(items[i].id, items[i].content_type)
    /\ \A i, j \in 1..Len(items) : items[i].file_path = items[j].file_path => i = j

\* C24: after any creates and updates, also updates that change
\* content_type, every item's document is stored at, and the file_path
\* returned and indexed for it is, the path of its id and its current
\* content_type; no two items share a file_path
C24_PathFollowsType ==
    /\ PathsCanonical(files, content_items)
    /\ (last.op \in {"create", "update"} /\ last.out = "ok") =>
           \A r \in {GetContentItem(files, last.id)} :
               r.out = "ok" =>
                   r.item.file_path = GetContentFilePath(last.id, r.item.content_type)


\* a read, an update the route's validation let through, or a delete has
\* been served for an id that had no document file
ServedAbsent ==
    /\ ops' = ops + 1
    /\ last'.op \in {"read", "update", "delete"}
    /\ last'.out # "rejected"
    /\ FilesOf(files, last'.id) = {}

\* C26: read, update and delete by id of an id that has no document answer
\* the negative outcome (None, None, False) without raising, and leave every
\* document and every index row as it was
C26_AbsentIdChangesNothing ==
    [][ServedAbsent =>
           /\ last'.out = "none"
           /\ last'.fault = "none"
           /\ files' = files
           /\ content_items' = content_items
           /\ content_fts' = content_fts]_vars

\* a delete of an id without a document has answered False while another
\* document and its row exist
C26_Witness ==
    /\ last.op = "delete" /\ last.out = "none"
    /\ FilesOf(files, last.id) = {}
    /\ files # <<>> /\ content_items # <<>>


\* the title, description, body and tags of the item last indexed for the id
CurrentText(id) == FtsRow(IndexedItem(id, last.given[id]))

\* C27: a free-text search returns an item only when the text it is indexed
\* with now holds the word: once an upsert has taken a word out of title,
\* description, body and tags, a search for the word no longer returns it
C27_SearchMatchesCurrentText ==
    (last.op = "search" /\ last.f.query # NoneStr) =>
        \A id \in ResultIds(last.result) :
            /\ last.given[id] # 0
            /\ FtsMatch(CurrentText(id), last.f.query)


\* C29: an upsert leaves the scalar rows and the full-text rows of every
\* other id as they were, also when the item's file_path is the file_path
\* stored in the row of another id
C29_UpsertFrame ==
    [][(ops' = ops + 1 /\ last'.op = "upsert") =>
           /\ OtherRows(content_items', last'.id) = OtherRows(content_items, last'.id)
           /\ OtherRows(content_fts', last'.id) = OtherRows(content_fts, last'.id)]_vars


Parseable(parsed) == {i \in 1..Len(parsed) : parsed[i].out = "ok"}
\* the parseable file is the last of its id in the scan
LastOfId(parsed, i) ==
    \A j \in Parseable(parsed) : (j > i) => parsed[j].item.id # parsed[i].item.id

\* the index holds what the parseable files give and nothing else, and the
\* count is their number
SkippedAside(parsed, items, fts, count) ==
    /\ count = Cardinality(Parseable(parsed))
    /\ \A i \in Parseable(parsed) :
          LastOfId(parsed, i) => \E k \in 1..Len(items) : items[k] = IndexRow(parsed[i].item)
    /\ \A i \in Parseable(parsed) :
          \E k \in 1..Len(fts) : fts[k] = FtsRow(parsed[i].item)
    /\ \A k \in 1..Len(items) :
          \E i \in Parseable(parsed) : items[k] = IndexRow(parsed[i].item)
    /\ Len(fts) = Cardinality(Parseable(parsed))

\* C25: a rebuild skips a file that does not parse as a content item (a
\* malformed metadata block, no metadata block, a required field missing)
\* and goes on: every parseable document is indexed, the skipped file adds
\* no row, and the count returned is the number of the parseable files
C25_RebuildSkipsUnparseable ==
    (last.op = "rebuild" /\ last.fault = "none") =>
        \A parsed \in {ParsedFiles(files)} :
            SkippedAside(parsed, content_items, content_fts, last.count)

\* a rebuild has scanned a file with a broken metadata block, then a file
\* without one, then a document, and has counted one
C25_Witness ==
    /\ last.op = "rebuild" /\ last.fault = "none" /\ last.count = 1
    /\ Len(files) = 3
    /\ files[1] = PlacedFiles[5] /\ files[2] = PlacedFiles[4]
    /\ Parseable(ParsedFiles(files)) = {3}

\* C28: the count a rebuild returns is the number of rows of the scalar
\* index when it returns, whatever files are under the root, also when two
\* files carry the same id
C28_CountIsRows ==
    last.op = "rebuild" => last.count = Len(content_items)


\* the rebuild has returned and the delete has answered True
BothCompleted(p, q) ==
    /\ procs[p].op = "rebuild" /\ procs[p].pc = "done"
    /\ procs[q].op = "delete" /\ procs[q].pc = "done" /\ procs[q].out = "ok"

\* C30: however the steps of a rebuild and of one delete of an existing item
\* interleave, once both have completed the index holds no scalar row and no
\* full-text row of the deleted id
C30_DeletedStaysOut ==
    \A p, q \in Procs :
        BothCompleted(p, q) =>
            /\ RowsOf(content_items, procs[q].id) = {}
            /\ FtsRowsOf(content_fts, procs[q].id) = {}

====
